---- MODULE Spec2Model ----
(***************************************************************************)
(* A2A Registry: the registration pipeline (AgentService), the validator   *)
(* (validateAgentCard) and the two storage backends (JsonFileStore,        *)
(* SqliteStore).                                                           *)
(*                                                                         *)
(* JavaScript strings are sequences of character tokens.  A JSON value is  *)
(* a record tagged with its type t, holding its characters s (a string),  *)
(* its elements e (an array) or its members m (an object, keyed by string).*)
(***************************************************************************)
EXTENDS Integers, Sequences, FiniteSets, TLC

VARIABLES
    backend,      \* index.ts createStore: which Store the process runs on
    agents,       \* JsonFileStore.agents : Map<string, AgentCard>
    initialized,  \* JsonFileStore.initialized
    file,         \* the file at JsonFileStore.filePath
    rows,         \* SqliteStore: the rows of table agents
    ops,          \* the requests issued so far, in call order
    seqAgents,    \* history: the map a one-at-a-time run in call order holds
    mutated,      \* history: some mutating store operation has completed
    last          \* the last step of the store-contract run (SpecStore)

vars == <<backend, agents, initialized, file, rows, ops, seqAgents, mutated, last>>

----------------------------------------------------------------------------
(* JSON values *)

NoMembers == [k \in {} |-> 0]

Str(s) == [s |-> s, t |-> "string"]

Num == [t |-> "number"]

Null == [t |-> "null"]

Arr(e) == [e |-> e, t |-> "array"]

Obj(m) == [m |-> m, t |-> "object"]

\* a property key: the one-token string of a field name
Key(field) == <<field>>

\* `field in card`; an array has no such property
In(field, card) == card.t = "object" /\ Key(field) \in DOMAIN card.m

\* card[field], for a field that is in card
Get(card, field) == card.m[Key(field)]

\* the members of an object literal { f1: v1, f2: v2, ... }
Members(pairs) ==
    [k \in {Key(pairs[i][1]) : i \in 1..Len(pairs)} |->
        pairs[CHOOSE i \in 1..Len(pairs) : Key(pairs[i][1]) = k][2]]

\* !!v; numbers stand for non-zero numbers
Truthy(v) == v.t \notin {"null", "undefined"} /\ ~(v.t = "string" /\ Len(v.s) = 0)

\* typeof v === 'string'
IsString(v) == v.t = "string"

\* Array.isArray(v)
IsArray(v) == v.t = "array"

\* !(!v || typeof v !== 'object'): a truthy value whose typeof is 'object'
IsObjectLike(v) == Truthy(v) /\ v.t \in {"object", "array"}

----------------------------------------------------------------------------
(* validateAgentCard *)

Whitespace == {" "}

\* String.prototype.trim
Trim(s) ==
    LET keep == {i \in 1..Len(s) : s[i] \notin Whitespace}
    IN  IF keep = {} THEN <<>>
        ELSE SubSeq(s, CHOOSE i \in keep : \A j \in keep : i <= j,
                       CHOOSE i \in keep : \A j \in keep : j <= i)

Schemes == {"https://", "http://"}

\* isValidUrl: new URL(urlString) succeeds; the URL parser is abstracted to
\* "a scheme followed by a non-empty authority"
isValidUrl(urlString) ==
    /\ Len(urlString) >= 2
    /\ urlString[1] \in Schemes
    /\ urlString[2] \notin Schemes \cup {"/", "?", "#", " "}

requiredFields ==
    <<"name", "description", "url", "version", "capabilities",
      "defaultInputModes", "defaultOutputModes", "skills">>

requiredSkillFields == <<"id", "name", "description", "tags">>

\* card[field] is absent, undefined or null
Lacks(card, field) ==
    ~In(field, card) \/ Get(card, field).t \in {"undefined", "null"}

\* mutant: the loop reports the last failing element
LastIndex(bad) == IF bad = {} THEN 0 ELSE CHOOSE i \in bad : \A j \in bad : j <= i

\* a loop that throws at the first failing element: the least of the
\* failing indices bad, 0 when none fails
FirstIndex(bad) == IF bad = {} THEN 0 ELSE CHOOSE i \in bad : \A j \in bad : i <= j

Ok == [message |-> <<>>, ok |-> TRUE]

Invalid(message) == [message |-> message, ok |-> FALSE]

\* the body of the loop over card.skills, for one skill
ValidateSkill(skill) ==
    IF ~IsObjectLike(skill) THEN Invalid(<<"Each skill must be an object">>)
    ELSE LET k == FirstIndex({i \in 1..Len(requiredSkillFields) :
                                  ~In(requiredSkillFields[i], skill)})
         IN
    IF k # 0 THEN Invalid(<<"Skill is missing required field: ", requiredSkillFields[k]>>)
    ELSE IF ~IsString(Get(skill, "id")) THEN Invalid(<<"Skill id must be a string">>)
    ELSE IF ~IsString(Get(skill, "name")) THEN Invalid(<<"Skill name must be a string">>)
    ELSE IF ~IsString(Get(skill, "description"))
        THEN Invalid(<<"Skill description must be a string">>)
    ELSE IF ~IsArray(Get(skill, "tags")) THEN Invalid(<<"Skill tags must be an array">>)
    ELSE IF In("examples", skill) /\ ~IsArray(Get(skill, "examples"))
        THEN Invalid(<<"Skill examples must be an array when provided">>)
    ELSE IF In("inputModes", skill) /\ ~IsArray(Get(skill, "inputModes"))
        THEN Invalid(<<"Skill inputModes must be an array when provided">>)
    ELSE IF In("outputModes", skill) /\ ~IsArray(Get(skill, "outputModes"))
        THEN Invalid(<<"Skill outputModes must be an array when provided">>)
    ELSE Ok

\* for (const skill of card.skills): the first skill that fails decides
ValidateSkills(skills) ==
    LET bad == {i \in 1..Len(skills) : ~ValidateSkill(skills[i]).ok}
    IN  IF bad = {} THEN Ok
        ELSE ValidateSkill(skills[CHOOSE i \in bad : \A j \in bad : i <= j])

\* validateAgentCard(data): Ok, or the InvalidAgentCardError it throws
validateAgentCard(data) ==
    IF ~IsObjectLike(data) THEN Invalid(<<"AgentCard must be an object">>)
    ELSE LET card == data
             k == FirstIndex({i \in 1..Len(requiredFields) :
                                 Lacks(card, requiredFields[i])})
         IN
    IF k # 0 THEN Invalid(<<"Missing required field: ", requiredFields[k]>>)
    ELSE IF ~IsString(Get(card, "name")) \/ Len(Trim(Get(card, "name").s)) = 0
        THEN Invalid(<<"name must be a non-empty string">>)
    ELSE IF ~IsString(Get(card, "description"))
        THEN Invalid(<<"description must be a string">>)
    ELSE IF ~IsString(Get(card, "url")) \/ ~isValidUrl(Get(card, "url").s)
        THEN Invalid(<<"url must be a valid URL string">>)
    ELSE IF ~IsString(Get(card, "version")) THEN Invalid(<<"version must be a string">>)
    ELSE IF Get(card, "capabilities").t # "object"
        THEN Invalid(<<"capabilities must be an object">>)
    ELSE IF ~IsArray(Get(card, "defaultInputModes"))
        THEN Invalid(<<"defaultInputModes must be an array">>)
    ELSE IF ~IsArray(Get(card, "defaultOutputModes"))
        THEN Invalid(<<"defaultOutputModes must be an array">>)
    ELSE IF ~IsArray(Get(card, "skills")) THEN Invalid(<<"skills must be an array">>)
    ELSE IF ~ValidateSkills(Get(card, "skills").e).ok
        THEN ValidateSkills(Get(card, "skills").e)
    ELSE IF In("protocolVersion", card) /\ ~IsString(Get(card, "protocolVersion"))
        THEN Invalid(<<"protocolVersion must be a string">>)
    ELSE IF In("preferredTransport", card) /\ ~IsString(Get(card, "preferredTransport"))
        THEN Invalid(<<"preferredTransport must be a string">>)
    ELSE IF In("iconUrl", card) /\ Get(card, "iconUrl").t \notin {"null", "string"}
        THEN Invalid(<<"iconUrl must be a string or null">>)
    ELSE Ok

\* the validateAgentCard defined first in validation.ts: capabilities must
\* be an array, and the elements of skills are not looked at
validateAgentCardEarlier(data) ==
    IF ~IsObjectLike(data) THEN Invalid(<<"AgentCard must be an object">>)
    ELSE LET card == data
             k == FirstIndex({i \in 1..Len(requiredFields) :
                                 Lacks(card, requiredFields[i])})
         IN
    IF k # 0 THEN Invalid(<<"Missing required field: ", requiredFields[k]>>)
    ELSE IF ~IsString(Get(card, "name")) \/ Len(Trim(Get(card, "name").s)) = 0
        THEN Invalid(<<"name must be a non-empty string">>)
    ELSE IF ~IsString(Get(card, "description"))
        THEN Invalid(<<"description must be a string">>)
    ELSE IF ~IsString(Get(card, "url")) \/ ~isValidUrl(Get(card, "url").s)
        THEN Invalid(<<"url must be a valid URL string">>)
    ELSE IF ~IsString(Get(card, "version")) THEN Invalid(<<"version must be a string">>)
    ELSE IF ~IsArray(Get(card, "capabilities"))
        THEN Invalid(<<"capabilities must be an array">>)
    ELSE IF ~IsArray(Get(card, "defaultInputModes"))
        THEN Invalid(<<"defaultInputModes must be an array">>)
    ELSE IF ~IsArray(Get(card, "defaultOutputModes"))
        THEN Invalid(<<"defaultOutputModes must be an array">>)
    ELSE IF ~IsArray(Get(card, "skills")) THEN Invalid(<<"skills must be an array">>)
    ELSE IF In("protocolVersion", card) /\ ~IsString(Get(card, "protocolVersion"))
        THEN Invalid(<<"protocolVersion must be a string">>)
    ELSE IF In("preferredTransport", card) /\ ~IsString(Get(card, "preferredTransport"))
        THEN Invalid(<<"preferredTransport must be a string">>)
    ELSE IF In("iconUrl", card) /\ Get(card, "iconUrl").t \notin {"null", "string"}
        THEN Invalid(<<"iconUrl must be a string or null">>)
    ELSE Ok

----------------------------------------------------------------------------
(* JSON.stringify and JSON.parse *)

RECURSIVE Encode(_)
\* the text of value v: a tuple <<tag, payload text>>
Encode(v) ==
    CASE v.t = "string" -> <<"string", v.s>>
      [] v.t = "array" -> <<"array", [i \in 1..Len(v.e) |-> Encode(v.e[i])]>>
      [] v.t = "object" -> <<"object", [k \in DOMAIN v.m |-> Encode(v.m[k])]>>
      [] OTHER -> <<v.t, <<>>>>

RECURSIVE Decode(_)
Decode(x) ==
    CASE x[1] = "string" -> Str(x[2])
      [] x[1] = "array" -> Arr([i \in 1..Len(x[2]) |-> Decode(x[2][i])])
      [] x[1] = "object" -> Obj([k \in DOMAIN x[2] |-> Decode(x[2][k])])
      [] OTHER -> [t |-> x[1]]

\* mutant: a serializer that drops the content of nested arrays
StringifyShallow(value, indent) ==
    [body |-> Encode(IF value.t # "object" THEN value
                     ELSE Obj([k \in DOMAIN value.m |->
                            IF value.m[k].t = "array" THEN Arr(<<>>) ELSE value.m[k]])),
     indent |-> indent,
     wellFormed |-> TRUE]

\* JSON.stringify(value, null, indent)
Stringify(value, indent) == [body |-> Encode(value), indent |-> indent, wellFormed |-> TRUE]

\* a text JSON.parse throws on
Garbage == [body |-> <<>>, indent |-> 0, wellFormed |-> FALSE]

\* JSON.parse(text): [ok, value]; ok is FALSE when it throws SyntaxError
Parse(text) ==
    IF text.wellFormed THEN [ok |-> TRUE, value |-> Decode(text.body)]
    ELSE [ok |-> FALSE, value |-> Null]

----------------------------------------------------------------------------
(* The documents of the model: what a remote agent may serve, and what the *)
(* file may hold when the process starts.                                  *)

NameA == <<"a">>

NameB == <<"b">>

Names == {NameA, NameB}

\* a skill record with the four required fields
Skill(id) ==
    Obj(Members(<< <<"id", Str(id)>>, <<"name", Str(<<"n">>)>>,
                   <<"description", Str(<<"d">>)>>,
                   <<"tags", Arr(<<>>)>> >>))

\* an AgentCard with every required field
Card(name, url, version) ==
    Obj(Members(<< <<"name", Str(name)>>, <<"description", Str(<<"d">>)>>,
                   <<"url", Str(url)>>, <<"version", Str(version)>>,
                   <<"capabilities", Obj(NoMembers)>>,
                   <<"defaultInputModes", Arr(<<>>)>>,
                   <<"defaultOutputModes", Arr(<<>>)>>,
                   <<"skills", Arr(<<Skill(<<"s">>)>>)>> >>))

\* card without the property field
Without(card, field) == Obj([k \in DOMAIN card.m \ {Key(field)} |-> card.m[k]])

\* card with the property field set to value
With(card, field, value) ==
    Obj([k \in DOMAIN card.m \cup {Key(field)} |->
            IF k = Key(field) THEN value ELSE card.m[k]])

UrlA == <<"https://", "a.example">>

UrlB == <<"https://", "b.example", "/", "agent", ".json">>

CardA1 == With(Card(NameA, UrlA, <<"1">>), "skills", Arr(<<>>))

CardA2 == With(Card(NameA, UrlA, <<"2">>), "skills", Arr(<<>>))

CardB1 == Card(NameB, UrlB, <<"1">>)

\* rejected by the validator: no skills
CardNoSkills == Without(CardA1, "skills")

\* a response body that is not JSON: axios (no responseType set) leaves the
\* text in response.data as a string, which the validator rejects
NotACard == Str(<<"hello">>)

ValidCards == {CardA1, CardA2, CardB1}

\* the parsed response bodies a remote server may answer with
Bodies == ValidCards \cup {CardNoSkills, NotACard}

----------------------------------------------------------------------------
(* Outcomes of a call: what it returns or throws *)

\* the listed documents, order ignored: document -> number of occurrences
NoList == [d \in {} |-> 0]

Returned(value) == [kind |-> "ok", listed |-> NoList, value |-> value]

ReturnedNull == [kind |-> "null", listed |-> NoList, value |-> Null]

ReturnedBool(b) ==
    [kind |-> IF b THEN "true" ELSE "false", listed |-> NoList, value |-> Null]

ReturnedList(bag) == [kind |-> "list", listed |-> bag, value |-> Null]

\* throw new <errorClass>(...)
Thrown(errorClass) == [kind |-> errorClass, listed |-> NoList, value |-> Null]

Pending == [kind |-> "pending", listed |-> NoList, value |-> Null]

\* agentCard.name; a value without the member reads as undefined, which a
\* Map key or an object key spells "undefined"
NameOf(agentCard) ==
    IF In("name", agentCard) THEN Get(agentCard, "name").s ELSE <<"undefined">>

----------------------------------------------------------------------------
(* JsonFileStore *)

EmptyMap == [k \in {} |-> Null]

NoFile == [exists |-> FALSE, text |-> Garbage]

FileOf(text) == [exists |-> TRUE, text |-> text]

\* Object.entries(parsed): the members of an object, the indexed elements of
\* an array
Entries(parsed) ==
    IF parsed.t = "object" THEN parsed.m
    ELSE [k \in {Key(ToString(i - 1)) : i \in 1..Len(parsed.e)} |->
            parsed.e[CHOOSE i \in 1..Len(parsed.e) : Key(ToString(i - 1)) = k]]

\* this.agents.set(name, agentCard) for every entry
SetAll(map, entries) ==
    [k \in DOMAIN map \cup DOMAIN entries |->
        IF k \in DOMAIN entries THEN entries[k] ELSE map[k]]

\* initialize(), from the data readFile delivered: the map after the merge
Load(map, data) ==
    LET parsed == Parse(data)
    IN  IF ~parsed.ok THEN map
        ELSE IF IsObjectLike(parsed.value) THEN SetAll(map, Entries(parsed.value))
        ELSE map

\* persist(): the text handed to fs.writeFile
Snapshot(map) == Stringify(Obj(map), 2)

\* Array.from(this.agents.values()), order ignored
ValuesOf(map) ==
    [d \in {map[k] : k \in DOMAIN map} |-> Cardinality({k \in DOMAIN map : map[k] = d})]

\* the methods after `await this.initialize()`, up to `await this.persist()`:
\* the map they leave, what they return, and whether persist() is called
JsonListAgents(map) ==
    [agents |-> map, persist |-> FALSE, result |-> ReturnedList(ValuesOf(map))]

JsonGetAgent(map, name) ==
    [agents |-> map,
     persist |-> FALSE,
     result |-> IF name \in DOMAIN map THEN Returned(map[name]) ELSE ReturnedNull]

\* mutant: set() without the has() check
JsonCreateAgentOverwrite(map, agentCard) ==
    [agents |-> SetAll(map, [k \in {NameOf(agentCard)} |-> agentCard]),
     persist |-> TRUE, result |-> Returned(agentCard)]

JsonCreateAgent(map, agentCard) ==
    IF NameOf(agentCard) \in DOMAIN map
    THEN [agents |-> map, persist |-> FALSE, result |-> Thrown("AgentAlreadyExistsError")]
    ELSE [agents |-> SetAll(map, [k \in {NameOf(agentCard)} |-> agentCard]),
          persist |-> TRUE, result |-> Returned(agentCard)]

JsonUpdateAgent(map, name, agentCard) ==
    IF name \notin DOMAIN map
    THEN [agents |-> map, persist |-> FALSE, result |-> ReturnedNull]
    ELSE [agents |-> SetAll(map, [k \in {name} |-> agentCard]),
          persist |-> TRUE, result |-> Returned(agentCard)]

\* mutant: delete() without the has() check
JsonDeleteAgentAlwaysTrue(map, name) ==
    [agents |-> [k \in DOMAIN map \ {name} |-> map[k]],
     persist |-> TRUE, result |-> ReturnedBool(TRUE)]

\* mutant: deleteAgent persists even when the name is not stored
JsonDeleteAgentRewrite(map, name) ==
    IF name \notin DOMAIN map
    THEN [agents |-> map, persist |-> TRUE, result |-> ReturnedBool(FALSE)]
    ELSE [agents |-> [k \in DOMAIN map \ {name} |-> map[k]],
          persist |-> TRUE, result |-> ReturnedBool(TRUE)]

JsonDeleteAgent(map, name) ==
    IF name \notin DOMAIN map
    THEN [agents |-> map, persist |-> FALSE, result |-> ReturnedBool(FALSE)]
    ELSE [agents |-> [k \in DOMAIN map \ {name} |-> map[k]],
          persist |-> TRUE, result |-> ReturnedBool(TRUE)]

\* a call on the Store interface: [op, name, card]
StoreCall(op, name, card) == [card |-> card, name |-> name, op |-> op]

NoCall == StoreCall("none", <<>>, Null)

\* the name a call is about
CallKey(call) == IF call.op = "createAgent" THEN NameOf(call.card) ELSE call.name

JsonBody(map, call) ==
    CASE call.op = "listAgents" -> JsonListAgents(map)
      [] call.op = "getAgent" -> JsonGetAgent(map, call.name)
      [] call.op = "createAgent" -> JsonCreateAgent(map, call.card)
      [] call.op = "updateAgent" -> JsonUpdateAgent(map, call.name, call.card)
      [] call.op = "deleteAgent" -> JsonDeleteAgent(map, call.name)

----------------------------------------------------------------------------
(* SqliteStore: table agents (name TEXT PRIMARY KEY, agent_card TEXT) *)

Row(name, text) == [agent_card |-> text, name |-> name]

\* SELECT agent_card FROM agents WHERE name = ?
Select(table, name) == {r \in table : r.name = name}

SqlListAgents(table) ==
    LET docs == {Parse(r.agent_card).value : r \in table}
    IN  [changes |-> 0,
         result |-> ReturnedList([d \in docs |->
                      Cardinality({r \in table : Parse(r.agent_card).value = d})]),
         rows |-> table]

SqlGetAgent(table, name) ==
    [changes |-> 0,
     result |-> IF Select(table, name) = {} THEN ReturnedNull
                ELSE Returned(Parse((CHOOSE r \in Select(table, name) : TRUE).agent_card).value),
     rows |-> table]

\* INSERT: the primary key rejects a second row of the same name
SqlCreateAgent(table, agentCard) ==
    IF Select(table, NameOf(agentCard)) # {}
    THEN [changes |-> 0, result |-> Thrown("AgentAlreadyExistsError"), rows |-> table]
    ELSE [changes |-> 1,
          result |-> Returned(agentCard),
          rows |-> table \cup {Row(NameOf(agentCard), Stringify(agentCard, 0))}]

\* mutant: the result.changes === 0 test left out
SqlUpdateAgentNoCheck(table, name, agentCard) ==
    LET hit == Select(table, name)
    IN  [changes |-> Cardinality(hit),
         result |-> Returned(agentCard),
         rows |-> (table \ hit) \cup {Row(r.name, Stringify(agentCard, 0)) : r \in hit}]

\* UPDATE agents SET agent_card = ? WHERE name = ?
SqlUpdateAgent(table, name, agentCard) ==
    LET hit == Select(table, name)
    IN  [changes |-> Cardinality(hit),
         result |-> IF Cardinality(hit) = 0 THEN ReturnedNull ELSE Returned(agentCard),
         rows |-> (table \ hit) \cup {Row(r.name, Stringify(agentCard, 0)) : r \in hit}]

\* DELETE FROM agents WHERE name = ?
SqlDeleteAgent(table, name) ==
    LET hit == Select(table, name)
    IN  [changes |-> Cardinality(hit), result |-> ReturnedBool(Cardinality(hit) > 0),
         rows |-> table \ hit]

SqlBody(table, call) ==
    CASE call.op = "listAgents" -> SqlListAgents(table)
      [] call.op = "getAgent" -> SqlGetAgent(table, call.name)
      [] call.op = "createAgent" -> SqlCreateAgent(table, call.card)
      [] call.op = "updateAgent" -> SqlUpdateAgent(table, call.name, call.card)
      [] call.op = "deleteAgent" -> SqlDeleteAgent(table, call.name)

----------------------------------------------------------------------------
(* SpecStore: the Store contract.  The same calls are issued, one after    *)
(* another and each awaited, to a JsonFileStore and to a SqliteStore.      *)

\* mutant: initialize() without its try/catch, a file that does not parse
\* makes the method throw
JsonRunNoCatch(map, init, f, call) ==
    IF ~init /\ f.exists /\ ~Parse(f.text).ok
    THEN [agents |-> map, file |-> f, initialized |-> FALSE, loaded |-> map,
          result |-> Thrown("SyntaxError")]
    ELSE LET loaded == IF init \/ ~f.exists THEN map ELSE Load(map, f.text)
             b == JsonBody(loaded, call)
         IN  [agents |-> b.agents,
              file |-> IF b.persist THEN FileOf(Snapshot(b.agents)) ELSE f,
              initialized |-> TRUE, loaded |-> loaded, result |-> b.result]

\* a JsonFileStore method awaited to its end: initialize(), the method's
\* body, persist()
JsonRun(map, init, f, call) ==
    LET loaded == IF init \/ ~f.exists THEN map ELSE Load(map, f.text)
        b == JsonBody(loaded, call)
    IN  [agents |-> b.agents, file |-> IF b.persist THEN FileOf(Snapshot(b.agents)) ELSE f,
         initialized |-> TRUE,
         loaded |-> loaded, result |-> b.result]

\* one step of the run: the call, both outcomes, and the state it started from
Step(call, json, sql, beforeAgents, beforeFile, beforeRows) ==
    [beforeAgents |-> beforeAgents, beforeFile |-> beforeFile,
     beforeRows |-> beforeRows, call |-> call,
     json |-> json, sql |-> sql]

NoStep == Step(NoCall, Pending, Pending, EmptyMap, NoFile, {})

\* the documents created and not changed since: name -> document
FreshAfter(fresh, call, json) ==
    LET rest == [k \in DOMAIN fresh \ {CallKey(call)} |-> fresh[k]]
    IN  IF call.op = "createAgent" /\ json.kind = "ok"
        THEN SetAll(rest, [k \in {CallKey(call)} |-> call.card])
        ELSE IF call.op \in {"listAgents", "getAgent"} \/ json.kind \notin {"ok", "true"}
        THEN fresh
        ELSE rest

InitStore ==
    /\ backend = "both"
    /\ agents = EmptyMap
    /\ initialized = FALSE
    /\ file \in {NoFile, FileOf(Garbage), FileOf(Snapshot(EmptyMap))}
    /\ rows = {}
    /\ ops = <<>>
    /\ seqAgents = EmptyMap
    /\ mutated = FALSE
    /\ last = [cur |-> NoStep, fresh |-> EmptyMap, prev |-> NoStep]

\* issue call to both stores
Issue(call) ==
    LET j == JsonRun(agents, initialized, file, call)
        q == SqlBody(rows, call)
    IN  /\ agents' = j.agents
        /\ initialized' = j.initialized
        /\ file' = j.file
        /\ rows' = q.rows
        /\ last' = [cur |-> Step(call, j.result, q.result, j.loaded, file, rows),
                    fresh |-> FreshAfter(last.fresh, call, j.result),
                    prev |-> last.cur]
        /\ UNCHANGED <<backend, ops, seqAgents, mutated>>

StoreListAgents == Issue(StoreCall("listAgents", <<>>, Null))

StoreGetAgent == \E name \in Names : Issue(StoreCall("getAgent", name, Null))

StoreCreateAgent == \E card \in ValidCards : Issue(StoreCall("createAgent", <<>>, card))

StoreUpdateAgent ==
    \E name \in Names, card \in ValidCards : Issue(StoreCall("updateAgent", name, card))

StoreDeleteAgent == \E name \in Names : Issue(StoreCall("deleteAgent", name, Null))

NextStore ==
    \/ StoreListAgents
    \/ StoreGetAgent
    \/ StoreCreateAgent
    \/ StoreUpdateAgent
    \/ StoreDeleteAgent

SpecStore == InitStore /\ [][NextStore]_vars

----------------------------------------------------------------------------
(* Properties of the Store contract (SpecStore) *)

\* C1 - Uniqueness: on both backends, createAgent(doc) issued while doc.name
\* is stored fails with AgentAlreadyExistsError, and getAgent(doc.name)
\* returns the same document after the failed call as before it.
Uniqueness ==
    LET c == last.cur
        name == CallKey(c.call)
    IN  c.call.op = "createAgent" =>
          /\ name \in DOMAIN c.beforeAgents =>
               /\ c.json.kind = "AgentAlreadyExistsError"
               /\ JsonGetAgent(agents, name).result
                    = JsonGetAgent(c.beforeAgents, name).result
          /\ Select(c.beforeRows, name) # {} =>
               /\ c.sql.kind = "AgentAlreadyExistsError"
               /\ SqlGetAgent(rows, name).result = SqlGetAgent(c.beforeRows, name).result

\* C1 witness: a create of a different document under a stored name was refused
UniquenessWitness ==
    LET c == last.cur
        name == CallKey(c.call)
    IN  /\ c.call.op = "createAgent"
        /\ name \in DOMAIN c.beforeAgents
        /\ Select(c.beforeRows, name) # {}
        /\ c.beforeAgents[name] # c.call.card
        /\ c.json.kind = "AgentAlreadyExistsError"
        /\ c.sql.kind = "AgentAlreadyExistsError"

\* C5 - Round-trip: on both backends, getAgent(D.name) issued after a
\* successful createAgent(D), with no update or delete of that name in
\* between, returns a document equal to D.
RoundTrip ==
    LET c == last.cur
    IN  /\ c.call.op = "getAgent" /\ c.call.name \in DOMAIN last.fresh =>
             /\ c.json = Returned(last.fresh[c.call.name])
             /\ c.sql = Returned(last.fresh[c.call.name])
        /\ \A name \in DOMAIN last.fresh :
             /\ JsonGetAgent(agents, name).result = Returned(last.fresh[name])
             /\ SqlGetAgent(rows, name).result = Returned(last.fresh[name])

\* C5 witness: a document with a skill was created, another call came in
\* between, and getAgent returned it
RoundTripWitness ==
    /\ last.cur.call.op = "getAgent"
    /\ last.cur.call.name \in DOMAIN last.fresh
    /\ last.fresh[last.cur.call.name] = CardB1
    /\ last.prev.call.op # "createAgent"
    /\ last.cur.sql.kind = "ok"

\* C6 - Delete idempotence: on both backends, deleteAgent of an absent name
\* returns false, throws nothing and changes nothing; deleteAgent of a
\* present name returns true and the same call repeated returns false.
DeleteIdempotence ==
    LET c == last.cur
        p == last.prev
    IN  /\ c.call.op = "deleteAgent" /\ c.call.name \notin DOMAIN c.beforeAgents =>
             c.json = ReturnedBool(FALSE) /\ agents = c.beforeAgents /\ file = c.beforeFile
        /\ c.call.op = "deleteAgent" /\ Select(c.beforeRows, c.call.name) = {} =>
             c.sql = ReturnedBool(FALSE) /\ rows = c.beforeRows
        /\ c.call.op = "deleteAgent" /\ c.call.name \in DOMAIN c.beforeAgents =>
             c.json = ReturnedBool(TRUE) /\ c.call.name \notin DOMAIN agents
        /\ c.call.op = "deleteAgent" /\ Select(c.beforeRows, c.call.name) # {} =>
             c.sql = ReturnedBool(TRUE) /\ Select(rows, c.call.name) = {}
        /\ p.call.op = "deleteAgent" /\ c.call = p.call /\ p.json.kind = "true" =>
             c.json = ReturnedBool(FALSE)
        /\ p.call.op = "deleteAgent" /\ c.call = p.call /\ p.sql.kind = "true" =>
             c.sql = ReturnedBool(FALSE)

\* C6 witness: deleteAgent twice in a row on a present name
DeleteIdempotenceWitness ==
    /\ last.prev.call.op = "deleteAgent"
    /\ last.cur.call = last.prev.call
    /\ last.prev.json.kind = "true" /\ last.prev.sql.kind = "true"
    /\ last.cur.json.kind = "false" /\ last.cur.sql.kind = "false"

\* C8 - Backend equivalence: at every step of the same sequence of calls,
\* JsonFileStore and SqliteStore return the same outcome (for listAgents,
\* the same documents, order ignored).
BackendEquivalence == last.cur.json = last.cur.sql

\* C8 witness: an update of a stored name, after a call that listed two
\* documents
BackendEquivalenceWitness ==
    /\ last.cur.call.op = "updateAgent"
    /\ last.cur.sql.kind = "ok"
    /\ last.prev.call.op = "listAgents"
    /\ Cardinality(DOMAIN last.prev.sql.listed) = 2

\* C16 - Start-up: the first call on a JsonFileStore whose file is missing
\* or does not parse as JSON throws nothing and sees an empty registry:
\* listAgents returns no document, getAgent and updateAgent return null,
\* deleteAgent returns false and createAgent succeeds.
StartsEmpty ==
    LET c == last.cur
    IN  (/\ c.call.op # "none"
         /\ last.prev = NoStep
         /\ c.beforeFile \in {NoFile, FileOf(Garbage)})
        => /\ c.json.kind \in {"ok", "null", "true", "false", "list"}
           /\ c.call.op = "listAgents" => c.json = ReturnedList(NoList)
           /\ c.call.op \in {"getAgent", "updateAgent"} => c.json = ReturnedNull
           /\ c.call.op = "deleteAgent" => c.json = ReturnedBool(FALSE)
           /\ c.call.op = "createAgent" => c.json = Returned(c.call.card)

\* C16 witness: listAgents, as the first call on a file that does not
\* parse, returned an empty list
StartsEmptyWitness ==
    /\ last.prev = NoStep
    /\ last.cur.call.op = "listAgents"
    /\ last.cur.beforeFile = FileOf(Garbage)
    /\ last.cur.json = ReturnedList(NoList)
    /\ initialized

----------------------------------------------------------------------------
(* AgentService *)

\* a url argument that was not given
Undefined == [t |-> "undefined"]

\* String.prototype.endsWith
EndsWith(str, suffix) ==
    /\ Len(str) >= Len(suffix)
    /\ SubSeq(str, Len(str) - Len(suffix) + 1, Len(str)) = suffix

\* mutant: url.replace(/\/+$/, ''), every trailing slash removed
StripTrailingSlashes(url) ==
    LET keep == {n \in 0..Len(url) : \A j \in (n + 1)..Len(url) : url[j] = "/"}
    IN  SubSeq(url, 1, CHOOSE n \in keep : \A m \in keep : n <= m)

\* url.replace(/\/$/, '')
StripTrailingSlash(url) ==
    IF EndsWith(url, <<"/">>) THEN SubSeq(url, 1, Len(url) - 1) ELSE url

\* mutant: the well-known path of the first generation
determineAgentCardUrlLegacy(url) ==
    IF EndsWith(url, <<".json">>) THEN url
    ELSE StripTrailingSlash(url) \o <<"/.well-known/agent.json">>

determineAgentCardUrl(url) ==
    IF EndsWith(url, <<".json">>) THEN url
    ELSE StripTrailingSlash(url) \o <<"/.well-known/agent-card.json">>

\* throw new InvalidAgentCardError(message)
InvalidAgentCardError(message) ==
    [kind |-> "InvalidAgentCardError", listed |-> NoList, value |-> Str(message)]

\* throw new AgentFetchError(url, cause)
AgentFetchError(url, cause) ==
    [kind |-> "AgentFetchError", listed |-> NoList,
     value |-> Str(<<"Failed to fetch AgentCard from ">> \o url \o <<": ">> \o cause)]

\* mutant: the catch block wraps every error, validation errors included
fetchAgentCardWrapping(data) ==
    IF validateAgentCard(data).ok THEN Returned(data) ELSE Thrown("AgentFetchError")

\* mutant: the fetched data is returned without validation
fetchAgentCardUnvalidated(data) == Returned(data)

\* fetchAgentCard, once axios.get has answered 200 with data
fetchAgentCard(data) ==
    IF validateAgentCard(data).ok THEN Returned(data)
    ELSE InvalidAgentCardError(validateAgentCard(data).message)

\* mutant: the name check of updateAgent left out
NameChangedNever(name, agentCard) == FALSE

\* updateAgent: agentCard.name !== name
NameChanged(name, agentCard) == NameOf(agentCard) # name

\* a request: one call of an AgentService method, and how far it has got
Request(kind, name, url) ==
    [body |-> Undefined,        \* the data the HTTP response carried
     call |-> NoCall,           \* the Store call last issued
     data |-> Garbage,          \* the text readFile read / writeFile writes
     existing |-> Pending,      \* updateAgent: what store.getAgent returned
     expected |-> Pending,      \* history: what the one-at-a-time run returns
     fetched |-> <<>>,          \* the URL of the HTTP GET
     fetches |-> 0,             \* number of HTTP GETs issued
     got |-> Pending,           \* what the Store call returned
     kind |-> kind, name |-> name,
     nth |-> 0,                 \* which call of its client this is
     pc |-> "start",            \* start, reading, read, fetching, writing, done
     result |-> Pending,        \* what the request returns or throws
     status |-> 0,              \* the status of the HTTP response, 0: none
     url |-> url,
     writes |-> 0]              \* number of Store mutations made

\* the request ends
Done(req, result) == [req EXCEPT !.pc = "done", !.result = result]

\* the request issues axios.get(determineAgentCardUrl(url))
Fetch(req, url) ==
    [req EXCEPT !.pc = "fetching", !.fetched = determineAgentCardUrl(url),
                !.fetches = @ + 1]

\* mutant: a failed GET is issued again
FailFetchRetry(req, cause) == [req EXCEPT !.fetches = @ + 1]

\* mutant: the failure of axios.get is swallowed and the call never ends
FailFetchHang(req, cause) == req

\* fetchAgentCard's catch block: the failure of axios.get becomes an
\* AgentFetchError naming the URL of the GET
FailFetch(req, cause) == Done(req, AgentFetchError(req.fetched, cause))

\* `${axiosError.response.status}: ${axiosError.response.statusText}`
StatusLine(status) ==
    <<"HTTP ", ToString(status), ": ",
      CASE status = 200 -> "OK"
        [] status = 201 -> "Created"
        [] status = 404 -> "Not Found">>

\* mutant: url || existingAgent.url, an empty url falls back to the stored one
AfterGetAgentOrUrl(req, existing) ==
    IF existing.kind = "null" \/ ~Truthy(existing.value)
    THEN Done([req EXCEPT !.existing = existing], ReturnedNull)
    ELSE LET stored == existing.value
             fetchUrl == IF ~Truthy(req.url)
                         THEN (IF In("url", stored) THEN Get(stored, "url") ELSE Undefined)
                         ELSE req.url
         IN  IF fetchUrl.t # "string"
             THEN Done([req EXCEPT !.existing = existing], Thrown("TypeError"))
             ELSE Fetch([req EXCEPT !.existing = existing], fetchUrl.s)

\* mutant: updateAgent without the `if (!existingAgent) return null` test
AfterGetAgentNoCheck(req, existing) ==
    LET fetchUrl == IF req.url.t \in {"undefined", "null"} /\ existing.kind = "ok"
                    THEN Get(existing.value, "url") ELSE req.url
    IN  IF fetchUrl.t # "string"
        THEN Done([req EXCEPT !.existing = existing], Thrown("TypeError"))
        ELSE Fetch([req EXCEPT !.existing = existing], fetchUrl.s)

\* updateAgent, once store.getAgent(name) has returned existing
AfterGetAgent(req, existing) ==
    IF existing.kind = "null" \/ ~Truthy(existing.value)
    THEN Done([req EXCEPT !.existing = existing], ReturnedNull)
    ELSE LET stored == existing.value
             fetchUrl == IF req.url.t \in {"undefined", "null"}
                         THEN (IF In("url", stored) THEN Get(stored, "url") ELSE Undefined)
                         ELSE req.url
         IN  IF fetchUrl.t # "string"
             THEN Done([req EXCEPT !.existing = existing], Thrown("TypeError"))
             ELSE Fetch([req EXCEPT !.existing = existing], fetchUrl.s)

\* what the request does when its Store call has returned result
AfterStore(req, result) ==
    LET r == [req EXCEPT !.got = result]
    IN  IF req.kind = "updateAgent" /\ req.call.op = "getAgent"
        THEN AfterGetAgent(r, result)
        ELSE Done(r, result)

----------------------------------------------------------------------------
(* Spec: the registry process.  Requests arrive at any time; a request     *)
(* runs until it awaits file or network I/O, and is resumed when that I/O  *)
(* completes.  An awaited promise that is already settled resumes within   *)
(* the same turn of the event loop, so no other request runs in between.   *)

\* a request whose outcome the caller has taken
Retired == [Request("retired", <<>>, Undefined) EXCEPT !.pc = "retired"]

\* two clients, each awaiting its call before it makes the next; neither
\* has made a call
NoRequests == <<Retired, Retired>>

\* number of calls of one behaviour
MaxCalls == 2

\* the URLs a client registers
Urls == {UrlA}

\* what the file may hold when the process starts: nothing, text that is
\* not JSON, what a previous run persisted, or a hand-edited registry
InitialFiles ==
    {NoFile, FileOf(Garbage), FileOf(Snapshot([k \in {NameA} |-> CardA1])),
     FileOf(Snapshot([k \in {NameA} |-> CardNoSkills]))}

\* the table a previous run may have left
InitialTables == {{}, {Row(NameA, Stringify(CardA1, 0))}}

Init ==
    /\ backend \in {"json", "sqlite"}
    /\ agents = EmptyMap
    /\ initialized = FALSE
    /\ file \in IF backend = "json" THEN InitialFiles ELSE {NoFile}
    /\ rows \in IF backend = "sqlite" THEN InitialTables ELSE {{}}
    /\ ops = NoRequests
    /\ seqAgents = IF file.exists THEN Load(EmptyMap, file.text) ELSE EmptyMap
    /\ mutated = FALSE
    /\ last = [cur |-> NoStep, fresh |-> EmptyMap, prev |-> NoStep]

\* the state a step of request req leaves
Post(map, init, table, seq, req) ==
    [agents |-> map, initialized |-> init, ops |-> req, rows |-> table, seqAgents |-> seq]

\* a JsonFileStore method from the end of initialize() to its return or to
\* the await of persist(), on the map initialize() left
JsonExec(map, seq, req) ==
    LET b == JsonBody(map, req.call)
    IN  Post(b.agents, TRUE, rows, seq,
             IF b.persist
             THEN [req EXCEPT !.pc = "writing", !.data = Snapshot(b.agents),
                              !.got = b.result, !.writes = @ + 1]
             ELSE AfterStore(req, b.result))

\* a SqliteStore method: synchronous
SqlExec(seq, req) ==
    LET b == SqlBody(rows, req.call)
    IN  Post(agents, initialized, b.rows, seq,
             AfterStore([req EXCEPT !.writes = @ + b.changes], b.result))

\* request req calls a Store method: up to its first await of I/O
Begin(req, call) ==
    LET ref == JsonBody(seqAgents, call)
        r == [req EXCEPT !.call = call, !.expected = ref.result, !.got = Pending]
    IN  IF backend = "sqlite" THEN SqlExec(ref.agents, r)
        ELSE IF initialized \/ ~file.exists THEN JsonExec(agents, ref.agents, r)
        ELSE Post(agents, initialized, rows, ref.agents, [r EXCEPT !.pc = "reading"])

\* the requests, those that ended before this step forgotten
Retire(reqs) ==
    [i \in 1..Len(reqs) |->
        IF reqs[i].pc = "done" THEN [Retired EXCEPT !.nth = reqs[i].nth] ELSE reqs[i]]

RECURSIVE Calls(_)
\* the number of calls the clients have made
Calls(reqs) == IF reqs = <<>> THEN 0 ELSE Head(reqs).nth + Calls(Tail(reqs))

\* the state after request i has taken a step that left post
Apply(i, post) ==
    /\ agents' = post.agents
    /\ initialized' = post.initialized
    /\ rows' = post.rows
    /\ seqAgents' = post.seqAgents
    /\ ops' = [Retire(ops) EXCEPT ![i] = post.ops]

\* a client that has no call in flight makes a call, which runs to its
\* first await
Arrive(post) ==
    /\ agents' = post.agents
    /\ initialized' = post.initialized
    /\ rows' = post.rows
    /\ seqAgents' = post.seqAgents
    /\ \E c \in 1..Len(ops) :
         /\ ops[c].pc \in {"retired", "done"}
         /\ Calls(ops) < MaxCalls
         /\ ops' = [Retire(ops) EXCEPT ![c] = [post.ops EXCEPT !.nth = ops[c].nth + 1]]
    /\ UNCHANGED <<backend, file, mutated, last>>

RegisterAgent ==
    \E url \in Urls :
        Arrive(Post(agents, initialized, rows, seqAgents,
                    Fetch(Request("registerAgent", <<>>, Str(url)), url)))

ListAgents ==
    Arrive(Begin(Request("listAgents", <<>>, Undefined), StoreCall("listAgents", <<>>, Null)))

GetAgent ==
    \E name \in Names :
        Arrive(Begin(Request("getAgent", name, Undefined), StoreCall("getAgent", name, Null)))

UpdateAgent ==
    \E name \in Names, url \in {Undefined, Str(<<>>), Str(UrlB)} :
        Arrive(Begin(Request("updateAgent", name, url), StoreCall("getAgent", name, Null)))

DeleteAgent ==
    \E name \in Names :
        Arrive(Begin(Request("deleteAgent", name, Undefined),
                     StoreCall("deleteAgent", name, Null)))

\* what request req does with the outcome of fetchAgentCard
AfterFetch(req, fetchedCard) ==
    IF fetchedCard.kind # "ok"
    THEN Post(agents, initialized, rows, seqAgents, Done(req, fetchedCard))
    ELSE IF req.kind = "registerAgent"
    THEN Begin(req, StoreCall("createAgent", <<>>, fetchedCard.value))
    ELSE IF NameChanged(req.name, fetchedCard.value)
    THEN Post(agents, initialized, rows, seqAgents,
              Done(req, InvalidAgentCardError(
                  <<"Cannot update agent: fetched AgentCard has different name">>)))
    ELSE Begin(req, StoreCall("updateAgent", req.name, fetchedCard.value))

\* what a server answers: 200 with any body, 201 with a valid document, 404
\* with a page that is not JSON
Responses ==
    {[data |-> d, status |-> 200] : d \in Bodies}
        \cup {[data |-> CardA1, status |-> 201], [data |-> NotACard, status |-> 404]}

\* axios.get gets a response: validateStatus lets status 200 resolve, any
\* other status rejects with the response attached
HttpResponse ==
    \E i \in 1..Len(ops), response \in Responses :
        /\ ops[i].pc = "fetching"
        /\ isValidUrl(ops[i].fetched)
        /\ LET req == [ops[i] EXCEPT !.body = response.data, !.status = response.status]
           IN  Apply(i, IF response.status = 200
                        THEN AfterFetch(req, fetchAgentCard(response.data))
                        ELSE Post(agents, initialized, rows, seqAgents,
                                  FailFetch(req, StatusLine(response.status))))
        /\ UNCHANGED <<backend, file, mutated, last>>

\* axios.get rejects without a response: a timeout, a URL that is no URL
HttpFailure ==
    \E i \in 1..Len(ops) :
        \E cause \in IF isValidUrl(ops[i].fetched)
                      THEN {<<"Request timeout">>}
                      ELSE {<<"Invalid URL">>} :
            /\ ops[i].pc = "fetching"
            /\ ops' = [Retire(ops) EXCEPT ![i] = FailFetch(@, cause)]
            /\ UNCHANGED <<backend, agents, initialized, file, rows, seqAgents, mutated, last>>

\* fs.readFile reads the file before a write in flight lands.  (Only a
\* landing write changes the file, so a read at any other moment before
\* the read resolves sees what a read at that moment sees.)
ReadFile ==
    \E i \in 1..Len(ops) :
        /\ ops[i].pc = "reading"
        /\ \E j \in 1..Len(ops) : ops[j].pc = "writing"
        /\ ops' = [Retire(ops) EXCEPT ![i] = [@ EXCEPT !.pc = "read", !.data = file.text]]
        /\ UNCHANGED <<backend, agents, initialized, file, rows, seqAgents, mutated, last>>

\* fs.readFile resolves: initialize() merges the data and the method goes on
ReadFileDone ==
    \E i \in 1..Len(ops) :
        /\ ops[i].pc \in {"reading", "read"}
        /\ Apply(i, JsonExec(Load(agents, IF ops[i].pc = "read" THEN ops[i].data
                                          ELSE file.text),
                             seqAgents, [ops[i] EXCEPT !.data = Garbage]))
        /\ UNCHANGED <<backend, file, mutated, last>>

\* fs.writeFile resolves: the file holds the text persist() built
WriteFileDone ==
    \E i \in 1..Len(ops) :
        /\ ops[i].pc = "writing"
        /\ file' = FileOf(ops[i].data)
        /\ mutated' = TRUE
        /\ ops' = [Retire(ops) EXCEPT ![i] = AfterStore(@, @.got)]
        /\ UNCHANGED <<backend, agents, initialized, rows, seqAgents, last>>

Next ==
    \/ RegisterAgent
    \/ ListAgents
    \/ GetAgent
    \/ UpdateAgent
    \/ DeleteAgent
    \/ HttpResponse
    \/ HttpFailure
    \/ ReadFile
    \/ ReadFileDone
    \/ WriteFileDone

Spec == Init /\ [][Next]_vars

----------------------------------------------------------------------------
(* SpecFault: the registry process on a disk whose writes may fail *)

\* fs.writeFile rejects: persist() throws, and so does the method; the file
\* is as it was, the map keeps what the method did to it
WriteFileFailure ==
    \E i \in 1..Len(ops) :
        /\ ops[i].pc = "writing"
        /\ ops' = [Retire(ops) EXCEPT ![i] = Done(@, Thrown("Error"))]
        /\ UNCHANGED <<backend, agents, initialized, file, rows, seqAgents, mutated, last>>

NextFault == Next \/ WriteFileFailure

\* the process starts with no file or with the file a previous run wrote
InitFault ==
    /\ Init
    /\ file.exists => Load(EmptyMap, file.text) = [k \in {NameA} |-> CardA1]

SpecFault == InitFault /\ [][NextFault]_vars

----------------------------------------------------------------------------
(* SpecEdited: the registry process on a JsonFileStore whose file was      *)
(* written by hand: the entry under key a holds the document of agent b.   *)

EditedFile == FileOf(Snapshot([k \in {NameA} |-> CardB1]))

InitEdited ==
    /\ backend = "json"
    /\ agents = EmptyMap
    /\ initialized = FALSE
    /\ file = EditedFile
    /\ rows = {}
    /\ ops = NoRequests
    /\ seqAgents = Load(EmptyMap, file.text)
    /\ mutated = FALSE
    /\ last = [cur |-> NoStep, fresh |-> EmptyMap, prev |-> NoStep]

SpecEdited == InitEdited /\ [][Next]_vars

----------------------------------------------------------------------------
(* SpecLive: the registry process, given that I/O ends.  axios.get is      *)
(* called with timeout: 30000, so it resolves or rejects; fs.readFile and  *)
(* fs.writeFile resolve.  Two clients call a store that has no file to     *)
(* read at start-up, or one client calls a JsonFileStore whose file        *)
(* exists.                                                                 *)

InitLive ==
    /\ backend \in {"json", "sqlite"}
    /\ agents = EmptyMap
    /\ initialized = FALSE
    /\ file \in IF backend = "json"
                THEN {NoFile, FileOf(Snapshot([k \in {NameA} |-> CardA1]))}
                ELSE {NoFile}
    /\ rows \in IF backend = "sqlite" THEN InitialTables ELSE {{}}
    /\ ops = IF file.exists THEN <<Retired>> ELSE NoRequests
    /\ seqAgents = IF file.exists THEN Load(EmptyMap, file.text) ELSE EmptyMap
    /\ mutated = FALSE
    /\ last = [cur |-> NoStep, fresh |-> EmptyMap, prev |-> NoStep]

\* the steps of the process; no readFile is pending while a write is
NextLive ==
    \/ RegisterAgent
    \/ ListAgents
    \/ GetAgent
    \/ UpdateAgent
    \/ DeleteAgent
    \/ HttpResponse
    \/ HttpFailure
    \/ ReadFileDone
    \/ WriteFileDone

SpecLive ==
    /\ InitLive
    /\ [][NextLive]_vars
    /\ WF_vars(HttpResponse \/ HttpFailure)
    /\ WF_vars(ReadFileDone)
    /\ WF_vars(WriteFileDone)

----------------------------------------------------------------------------
(* SpecLoading: the registry process on a JsonFileStore whose file exists, *)
(* from the moment a first call awaits the readFile of initialize(); two   *)
(* more clients make calls while it does.                                  *)

\* the first call: listAgents, or a registerAgent that has fetched a valid
\* document and called store.createAgent
FirstCalls ==
    {[Request("listAgents", <<>>, Undefined)
        EXCEPT !.call = StoreCall("listAgents", <<>>, Null)],
     [Fetch(Request("registerAgent", <<>>, Str(UrlA)), UrlA)
        EXCEPT !.body = CardA1, !.status = 200,
               !.call = StoreCall("createAgent", <<>>, CardA1)]}

\* the first call has called initialize(), which awaits fs.readFile
InitLoading ==
    /\ backend = "json"
    /\ agents = EmptyMap
    /\ initialized = FALSE
    /\ file \in {f \in InitialFiles : f.exists}
    /\ rows = {}
    /\ \E first \in FirstCalls :
         LET ref == JsonBody(Load(EmptyMap, file.text), first.call)
         IN  /\ seqAgents = ref.agents
             /\ ops = Append(NoRequests, [first EXCEPT !.expected = ref.result,
                                                       !.pc = "reading"])
    /\ mutated = FALSE
    /\ last = [cur |-> NoStep, fresh |-> EmptyMap, prev |-> NoStep]

SpecLoading == InitLoading /\ [][Next]_vars

----------------------------------------------------------------------------
(* SpecUrl: determineAgentCardUrl over the URLs a caller may give.  A URL  *)
(* is a sequence of tokens; the characters / ? # and the suffix .json are  *)
(* tokens of their own, so that endsWith and the regular expression see    *)
(* what they see in the string.                                            *)

\* number of tokens after the host
MaxUrlLen == 4

UrlHost == <<"https:", "/", "/", "example.com">>

UrlTokens == {"/", "my-agent", ".json", "?", "#"}

RECURSIVE UrlTails(_)
UrlTails(n) ==
    IF n = 0 THEN {<<>>}
    ELSE UrlTails(n - 1) \cup {Append(t, c) : t \in UrlTails(n - 1), c \in UrlTokens}

UrlInputs == {UrlHost \o t : t \in UrlTails(MaxUrlLen)}

InitUrl ==
    /\ backend = "sqlite"
    /\ agents = EmptyMap
    /\ initialized = FALSE
    /\ file = NoFile
    /\ rows = {}
    /\ ops \in {<<Request("registerAgent", <<>>, Str(url))>> : url \in UrlInputs}
    /\ seqAgents = EmptyMap
    /\ mutated = FALSE
    /\ last = [cur |-> NoStep, fresh |-> EmptyMap, prev |-> NoStep]

\* registerAgent(url) up to its axios.get
Resolve ==
    /\ ops[1].pc = "start"
    /\ ops' = <<Fetch(ops[1], ops[1].url.s)>>
    /\ UNCHANGED <<backend, agents, initialized, file, rows, seqAgents, mutated, last>>

SpecUrl == InitUrl /\ [][Resolve]_vars

\* the URL up to its query string or fragment
PathOf(url) ==
    LET marks == {i \in 1..Len(url) : url[i] \in {"?", "#"}}
    IN  IF marks = {} THEN url
        ELSE SubSeq(url, 1, (CHOOSE i \in marks : \A j \in marks : i <= j) - 1)

\* C12 - Direct branch: the GET goes to the input URL unchanged exactly when
\* the path of the URL (what precedes its query string or fragment) ends
\* with .json.
DirectWhenPathEndsInJson ==
    ops[1].pc = "fetching" =>
        (ops[1].fetched = ops[1].url.s
            <=> (PathOf(ops[1].url.s) # <<>>
                 /\ PathOf(ops[1].url.s)[Len(PathOf(ops[1].url.s))] = ".json"))

----------------------------------------------------------------------------
(* Properties of the registry process (Spec) *)

\* request i runs its step in this transition
Steps(i) == i > Len(ops) \/ ops[i] # ops'[i]

\* no Store call is being executed by request req
Idle(req) == req.pc \in {"start", "fetching", "done", "retired"}

\* C2 - Update rename rejection: when the fetch of updateAgent(N, url)
\* answers (status 200) a valid document whose name differs from N, the request ends with
\* InvalidAgentCardError, the only Store call it has issued is the getAgent
\* it began with, it has made no Store write, and the step leaves the map,
\* the table and the file as they were.
UpdateRenameRejection ==
    [][\A i \in 1..Len(ops) :
          (/\ ops[i].kind = "updateAgent"
           /\ ops[i].pc = "fetching"
           /\ ops'[i].pc # "fetching"
           /\ ops'[i].status = 200
           /\ validateAgentCard(ops'[i].body).ok
           /\ NameOf(ops'[i].body) # ops[i].name)
          => /\ ops'[i].pc = "done"
             /\ ops'[i].result.kind = "InvalidAgentCardError"
             /\ ops'[i].call.op = "getAgent"
             /\ ops'[i].writes = 0
             /\ agents' = agents /\ rows' = rows /\ file' = file]_vars

\* C2 witness: an update of a stored name fetched a valid document of
\* another name and was refused
UpdateRenameRejectionWitness ==
    \E i \in 1..Len(ops) :
        /\ ops[i].kind = "updateAgent"
        /\ ops[i].pc = "done"
        /\ ops[i].existing.kind = "ok"
        /\ ops[i].status = 200
        /\ ops[i].body \in ValidCards
        /\ NameOf(ops[i].body) # ops[i].name
        /\ ops[i].result.kind = "InvalidAgentCardError"

\* C3 - Only valid documents are held: every value of the JsonFileStore map
\* and every row of the SQLite table is a document validateAgentCard accepts.
OnlyValidDocumentsHeld ==
    /\ \A name \in DOMAIN agents : validateAgentCard(agents[name]).ok
    /\ \A r \in rows :
         /\ Parse(r.agent_card).ok
         /\ validateAgentCard(Parse(r.agent_card).value).ok

\* C4 - Update absence: when updateAgent(name, url) runs its getAgent on a
\* store that does not hold name, the request ends there: it returns null,
\* has issued no HTTP GET and no Store call but that getAgent, has made no
\* Store write, and the table and the file are as they were.
UpdateAbsence ==
    [][\A i \in 1..Len(ops') :
          (/\ ops'[i].kind = "updateAgent"
           /\ Steps(i)
           /\ ops[i].pc \in {"retired", "done", "reading", "read"}
           /\ ops'[i].pc \notin {"reading", "read"}
           /\ IF backend = "sqlite" THEN Select(rows, ops'[i].name) = {}
              ELSE ops'[i].name \notin DOMAIN agents')
          => /\ ops'[i].pc = "done"
             /\ ops'[i].result = ReturnedNull
             /\ ops'[i].fetches = 0
             /\ ops'[i].fetched = <<>>
             /\ ops'[i].call.op = "getAgent"
             /\ ops'[i].writes = 0
             /\ rows' = rows /\ file' = file]_vars

\* C4 witness: an update with a url, of a name the store does not hold,
\* returned null while another name was stored
UpdateAbsenceWitness ==
    \E i \in 1..Len(ops) :
        /\ ops[i].kind = "updateAgent"
        /\ ops[i].pc = "done"
        /\ ops[i].url = Str(UrlB)
        /\ ops[i].existing.kind = "null"
        /\ ops[i].result = ReturnedNull
        /\ ops[i].fetches = 0
        /\ (DOMAIN agents # {} \/ rows # {})

\* C7 - Register rejects invalid documents: when the fetch of registerAgent
\* answers (status 200) a value validateAgentCard rejects, the request ends with
\* InvalidAgentCardError, it has issued no Store call (createAgent is not
\* invoked) and made no Store write, and the step leaves the map, the table
\* and the file as they were.
RegisterInvalidRejected ==
    [][\A i \in 1..Len(ops) :
          (/\ ops[i].kind = "registerAgent"
           /\ ops[i].pc = "fetching"
           /\ ops'[i].pc # "fetching"
           /\ ops'[i].status = 200
           /\ ~validateAgentCard(ops'[i].body).ok)
          => /\ ops'[i].pc = "done"
             /\ ops'[i].result.kind = "InvalidAgentCardError"
             /\ ops'[i].call = NoCall
             /\ ops'[i].writes = 0
             /\ agents' = agents /\ rows' = rows /\ file' = file]_vars

\* C7 witness: a registration fetched a document without skills and was
\* refused with the validator's message
RegisterInvalidRejectedWitness ==
    \E i \in 1..Len(ops) :
        /\ ops[i].kind = "registerAgent"
        /\ ops[i].pc = "done"
        /\ ops[i].status = 200
        /\ ops[i].body = CardNoSkills
        /\ ops[i].result = InvalidAgentCardError(validateAgentCard(CardNoSkills).message)
        /\ ops[i].call = NoCall

\* C9 - Serialized in call order: every call a JsonFileStore has answered
\* returned what the same calls, run one after another in call order,
\* return.
SerializedInCallOrder ==
    backend = "json" =>
        \A i \in 1..Len(ops) :
            ops[i].got # Pending => ops[i].got = ops[i].expected

\* C10 - Write-through consistency: whenever no JsonFileStore call is in
\* flight and a mutating call has completed, a store opened on the file
\* loads exactly the in-memory map.
WriteThroughConsistency ==
    (/\ backend = "json"
     /\ mutated
     /\ \A i \in 1..Len(ops) : Idle(ops[i]))
    => /\ file.exists
       /\ Load(EmptyMap, file.text) = agents

\* C11 - Atomic mutations: a createAgent, updateAgent or deleteAgent that
\* fails leaves what getAgent and listAgents answer as it was before the
\* call.  Hence, while no mutating call has succeeded and none is running,
\* the JsonFileStore map holds what the file held at start-up.
AtomicMutations ==
    (/\ backend = "json"
     /\ initialized
     /\ ~mutated
     /\ \A i \in 1..Len(ops) : Idle(ops[i]))
    => agents = (IF file.exists THEN Load(EmptyMap, file.text) ELSE EmptyMap)

UnparseableBodyIsFetchFailure ==
    \A i \in 1..Len(ops) :
        (ops[i].pc = "done" /\ ops[i].status = 200 /\ ops[i].body = NotACard)
        => /\ ops[i].result.kind = "AgentFetchError"
           /\ ops[i].writes = 0

\* C17 - Update fetch target: updateAgent(name, url) of a stored name issues
\* one GET, to the resolved form of url when url is a string (the empty
\* string included) and to the resolved form of the stored document's url
\* when no url is given.
UpdateFetchTarget ==
    \A i \in 1..Len(ops) :
        (ops[i].kind = "updateAgent" /\ ops[i].existing.kind = "ok")
        => /\ ops[i].fetches = 1
           /\ ops[i].fetched =
                determineAgentCardUrl(IF ops[i].url.t = "string" THEN ops[i].url.s
                                      ELSE Get(ops[i].existing.value, "url").s)

\* C17 witness: an update of a stored name with the empty string as url is
\* fetching from the resolved form of the empty string
UpdateFetchTargetWitness ==
    \E i \in 1..Len(ops) :
        /\ ops[i].kind = "updateAgent"
        /\ ops[i].existing.kind = "ok"
        /\ ops[i].url = Str(<<>>)
        /\ ops[i].pc = "fetching"
        /\ ops[i].fetched = <<"/.well-known/agent-card.json">>

\* C18 - No retry: a call issues at most one GET; once its GET has ended
\* without a 200 response the call has ended with AgentFetchError, having
\* issued that one GET, no Store write and no Store call but the getAgent
\* of an update.
NoRetry ==
    \A i \in 1..Len(ops) :
        /\ ops[i].fetches <= 1
        /\ (ops[i].fetches = 1 /\ ops[i].pc # "fetching" /\ ops[i].status # 200)
           => /\ ops[i].pc = "done"
              /\ ops[i].result.kind = "AgentFetchError"
              /\ ops[i].writes = 0
              /\ ops[i].call.op = (IF ops[i].kind = "updateAgent" THEN "getAgent"
                                   ELSE "none")

\* C18 witness: an update of a stored name whose GET timed out has ended
\* with AgentFetchError
NoRetryWitness ==
    \E i \in 1..Len(ops) :
        /\ ops[i].kind = "updateAgent"
        /\ ops[i].existing.kind = "ok"
        /\ ops[i].pc = "done"
        /\ ops[i].status = 0
        /\ ops[i].result = AgentFetchError(ops[i].fetched, <<"Request timeout">>)
        /\ ops[i].fetches = 1

\* C19 - Classification by status: a call whose response had a status
\* outside 200..299 ends with AgentFetchError naming the URL and the status,
\* and a call whose response had a status in 200..299 and a valid document
\* as body does not end with AgentFetchError.
ClassifiedByStatus ==
    \A i \in 1..Len(ops) :
        (ops[i].pc = "done" /\ ops[i].status # 0)
        => /\ ops[i].status \notin 200..299
                => ops[i].result = AgentFetchError(ops[i].fetched, StatusLine(ops[i].status))
           /\ (ops[i].status \in 200..299 /\ validateAgentCard(ops[i].body).ok)
                => ops[i].result.kind # "AgentFetchError"

----------------------------------------------------------------------------
(* validateAgentCard as a function of its argument *)

\* the largest number of required fields one document has wrong
MaxDefects == 2

\* what can be wrong with a required field: it is not in the object, or it
\* is null, undefined, a number (a type no required field accepts) or an
\* array (a type the string and object fields do not accept)
DefectKinds == {"absent", "null", "undefined", "number", "array"}

\* the value a wrong field holds
DefectValue(kind) ==
    CASE kind = "null" -> Null
      [] kind = "undefined" -> Undefined
      [] kind = "number" -> Num
      [] kind = "array" -> Arr(<<>>)

\* card with the fields of DOMAIN defects made wrong, each in its own way
Defective(card, defects) ==
    LET gone == {Key(f) : f \in {g \in DOMAIN defects : defects[g] = "absent"}}
        field(k) == CHOOSE f \in DOMAIN defects : Key(f) = k
    IN  Obj([k \in DOMAIN card.m \ gone |->
                IF \E f \in DOMAIN defects : Key(f) = k
                    THEN DefectValue(defects[field(k)])
                    ELSE card.m[k]])

\* the largest number of elements of skills
MaxSkills == 2

SkillIds == {<<"s1">>, <<"s2">>}

\* the elements of skills: a skill with its required fields, or with one of
\* them not in the object
SkillVariants ==
    {Skill(id) : id \in SkillIds}
    \cup {Without(Skill(id), requiredSkillFields[i]) :
            id \in SkillIds, i \in 1..Len(requiredSkillFields)}

\* cards that are valid but for their skills
SkillDocuments ==
    {With(CardA1, "skills", Arr(skills)) :
        skills \in UNION {[1..n -> SkillVariants] : n \in 1..MaxSkills}}

\* the objects given to validateAgentCard
Documents ==
    LET fields == {requiredFields[i] : i \in 1..Len(requiredFields)}
        wrong == {S \in SUBSET fields : Cardinality(S) <= MaxDefects}
    IN  UNION {{Defective(CardA1, d) : d \in [S -> DefectKinds]} : S \in wrong}
        \cup SkillDocuments

\* registerAgent has received response.data and is about to validate it
InitValidate ==
    /\ backend = "sqlite"
    /\ agents = EmptyMap
    /\ initialized = FALSE
    /\ file = NoFile
    /\ rows = {}
    /\ ops \in {<<[Fetch(Request("registerAgent", <<>>, Str(UrlA)), UrlA)
                     EXCEPT !.body = d, !.status = 200]>> : d \in Documents}
    /\ seqAgents = EmptyMap
    /\ mutated = FALSE
    /\ last = [cur |-> NoStep, fresh |-> EmptyMap, prev |-> NoStep]

\* validateAgentCard(response.data) returns or throws
Validate ==
    /\ ops[1].pc = "fetching"
    /\ LET outcome == validateAgentCard(ops[1].body)
       IN  ops' = <<Done(ops[1], IF outcome.ok THEN Returned(ops[1].body)
                                 ELSE InvalidAgentCardError(outcome.message))>>
    /\ UNCHANGED <<backend, agents, initialized, file, rows, seqAgents, mutated, last>>

\* the same call when validateAgentCard is the definition that comes first
\* in validation.ts
ValidateEarlier ==
    /\ ops[1].pc = "fetching"
    /\ LET outcome == validateAgentCardEarlier(ops[1].body)
       IN  ops' = <<Done(ops[1], IF outcome.ok THEN Returned(ops[1].body)
                                 ELSE InvalidAgentCardError(outcome.message))>>
    /\ UNCHANGED <<backend, agents, initialized, file, rows, seqAgents, mutated, last>>

NextValidate == Validate \/ ValidateEarlier

SpecValidate == InitValidate /\ [][NextValidate]_vars

\* C20 - Required-field rule: when an object has a required field that is
\* absent, null or undefined, validateAgentCard throws InvalidAgentCardError
\* "Missing required field: f", f being the first such field in the order
\* name, description, url, version, capabilities, defaultInputModes,
\* defaultOutputModes, skills, whatever the types of the other fields.
RequiredFieldRule ==
    ops[1].pc = "done"
    => LET card == ops[1].body
           order == <<"name", "description", "url", "version", "capabilities",
                      "defaultInputModes", "defaultOutputModes", "skills">>
           missing == {i \in 1..Len(order) :
                          \/ Key(order[i]) \notin DOMAIN card.m
                          \/ card.m[Key(order[i])] \in {Null, Undefined}}
       IN  \A i \in missing :
               (\A j \in missing : i <= j)
               => ops[1].result =
                    InvalidAgentCardError(<<"Missing required field: ", order[i]>>)

\* C20 witness: a document whose name is a number and whose skills are
\* absent has failed naming skills
RequiredFieldRuleWitness ==
    /\ ops[1].pc = "done"
    /\ ops[1].body = Defective(CardA1, [f \in {"name", "skills"} |->
                                          IF f = "name" THEN "number" ELSE "absent"])
    /\ ops[1].result = InvalidAgentCardError(<<"Missing required field: ", "skills">>)

\* C21 - Capabilities rule: whichever validateAgentCard of the repository
\* runs, a document whose capabilities is an array is rejected with an error
\* naming capabilities, and a document whose capabilities is an object and
\* whose other fields are those of a valid card is accepted.
CapabilitiesRule ==
    (ops[1].pc = "done" /\ In("capabilities", ops[1].body))
    => LET card == ops[1].body
           named == {InvalidAgentCardError(<<"capabilities must be an object">>),
                     InvalidAgentCardError(<<"capabilities must be an array">>),
                     InvalidAgentCardError(<<"Missing required field: ", "capabilities">>)}
       IN  /\ (Get(card, "capabilities").t = "array"
                /\ \A f \in DOMAIN CardA1.m \ {Key("capabilities")} :
                       f \in DOMAIN card.m /\ card.m[f] = CardA1.m[f])
               => ops[1].result \in named
           /\ card = CardA1 => ops[1].result = Returned(card)

\* C22 - Skill rule: a document in which an element of skills lacks id,
\* name, description or tags is rejected with an InvalidAgentCardError whose
\* message names a missing field of an offending skill and names that skill,
\* by its position or by its id.
SkillRule ==
    (ops[1].pc = "done" /\ ops[1].body \in SkillDocuments)
    => LET skills == Get(ops[1].body, "skills").e
           words == {ops[1].result.value.s[w] : w \in 1..Len(ops[1].result.value.s)}
           missing(i) == {requiredSkillFields[f] : f \in
                            {g \in 1..Len(requiredSkillFields) :
                                Key(requiredSkillFields[g]) \notin DOMAIN skills[i].m}}
           names(i) == {ToString(i), ToString(i - 1)}
                       \cup (IF Key("id") \in DOMAIN skills[i].m
                             THEN {Get(skills[i], "id").s[1]} ELSE {})
       IN  (\E i \in 1..Len(skills) : missing(i) # {})
           => /\ ops[1].result.kind = "InvalidAgentCardError"
              /\ \E i \in 1..Len(skills) :
                    /\ missing(i) \cap words # {}
                    /\ names(i) \cap words # {}

\* C23 - Replace-if-present under interleaving: once the name an
\* updateAgent is fetching for has been deleted (it was stored when the
\* update looked it up and is not stored now), the name stays absent unless
\* a registration creates it, and the update, when its document arrives,
\* calls store.updateAgent, writes nothing and returns null.
UpdateNeverCreates ==
    [][\A u \in 1..Len(ops) :
         LET name == ops[u].name
             absent == IF backend = "json" THEN name \notin DOMAIN agents
                       ELSE Select(rows, name) = {}
             absentAfter == IF backend = "json" THEN name \notin DOMAIN agents'
                            ELSE Select(rows', name) = {}
         IN  (/\ ops[u].kind = "updateAgent"
              /\ ops[u].pc = "fetching"
              /\ ops[u].existing.kind = "ok"
              /\ absent)
             => /\ \/ absentAfter
                   \/ \E j \in 1..Len(ops) :
                        /\ ops'[j].call.op = "createAgent"
                        /\ ops'[j].writes = ops[j].writes + 1
                /\ ops'[u].call.op = "updateAgent"
                   => /\ ops'[u].pc = "done"
                      /\ ops'[u].result = ReturnedNull
                      /\ ops'[u].writes = 0]_vars

\* C24 - Lazy load happens once: a JsonFileStore merges the content of its
\* file into the map only while it is not yet initialized, so no step whose
\* readFile resolves loads the file into a map that was already loaded.
LoadsOnce ==
    [][\A i \in 1..Len(ops) :
         (ops[i].pc \in {"reading", "read"} /\ ops'[i].pc \notin {"reading", "read"})
         => ~initialized]_vars

\* C25 - Completed mutations stay: on a JsonFileStore, the step after a
\* deleteAgent(N) has returned true leaves N absent unless it is a
\* createAgent of N, and the step after an updateAgent(N) has returned its
\* document D leaves D stored under N unless it is a mutation.
MutationsStay ==
    [][backend = "json" =>
        \A i \in 1..Len(ops) :
          LET name == ops[i].name
              mutation(op) == \E j \in 1..Len(ops) :
                                /\ ops[j].pc # "writing"
                                /\ ops'[j].pc = "writing"
                                /\ ops'[j].call.op \in op
          IN  ops[i].pc = "done" =>
              /\ (/\ ops[i].kind = "deleteAgent"
                  /\ ops[i].result = ReturnedBool(TRUE)
                  /\ name \notin DOMAIN agents)
                 => name \notin DOMAIN agents' \/ mutation({"createAgent"})
              /\ (/\ ops[i].kind = "updateAgent"
                  /\ ops[i].result.kind = "ok"
                  /\ name \in DOMAIN agents
                  /\ agents[name] = ops[i].result.value)
                 => \/ name \in DOMAIN agents' /\ agents'[name] = ops[i].result.value
                    \/ mutation({"createAgent", "updateAgent", "deleteAgent"})]_vars

\* C26 - Concurrent registrations of one name: while a registerAgent whose
\* createAgent has succeeded is in progress and its document is the one
\* stored under its name, the createAgent of another registerAgent with a
\* document of that name fails with AgentAlreadyExistsError and leaves that
\* document stored.
OneRegistrationWins ==
    [][\A i, j \in 1..Len(ops) :
         LET name == NameOf(ops[j].body)
             doc == ops[j].got.value
             held == IF backend = "json"
                     THEN name \in DOMAIN agents /\ agents[name] = doc
                     ELSE \E r \in Select(rows, name) : Parse(r.agent_card).value = doc
             heldAfter == IF backend = "json"
                          THEN name \in DOMAIN agents' /\ agents'[name] = doc
                          ELSE \E r \in Select(rows', name) : Parse(r.agent_card).value = doc
         IN  (/\ i # j
              /\ ops[j].kind = "registerAgent" /\ ops[j].call.op = "createAgent"
              /\ ops[j].got.kind = "ok"
              /\ held
              /\ ops[i].kind = "registerAgent"
              /\ ops[i].pc \in {"fetching", "reading", "read"}
              /\ ops'[i].call.op = "createAgent" /\ ops'[i].got # Pending
              /\ NameOf(ops'[i].body) = name)
             => /\ ops'[i].got.kind = "AgentAlreadyExistsError"
                /\ heldAfter]_vars

\* C27 - Error kinds are kept: a call that ends after a 200 response whose
\* body fails validation ends with the InvalidAgentCardError of the
\* validator; a registerAgent whose createAgent threw
\* AgentAlreadyExistsError ends with that error; a call whose Store method
\* threw because the file could not be written ends with that error.
ErrorKindsKept ==
    [][\A i \in 1..Len(ops) :
         (Steps(i) /\ ops'[i].pc = "done")
         => /\ (ops'[i].status = 200 /\ ~validateAgentCard(ops'[i].body).ok)
               => ops'[i].result =
                    InvalidAgentCardError(validateAgentCard(ops'[i].body).message)
            /\ (ops'[i].kind = "registerAgent"
                /\ ops'[i].got.kind = "AgentAlreadyExistsError")
               => ops'[i].result = Thrown("AgentAlreadyExistsError")
            /\ (ops[i].pc = "writing" /\ file' # FileOf(ops[i].data))
               => ops'[i].result = Thrown("Error")]_vars

\* C27 witness: a registerAgent whose createAgent found the name stored has
\* ended with AgentAlreadyExistsError
ErrorKindsKeptWitness ==
    \E i \in 1..Len(ops) :
        /\ ops[i].kind = "registerAgent"
        /\ ops[i].pc = "done"
        /\ ops[i].call.op = "createAgent"
        /\ ops[i].got = Thrown("AgentAlreadyExistsError")
        /\ ops[i].result = Thrown("AgentAlreadyExistsError")

\* C28 - Bounded fetch: every registerAgent and updateAgent call in
\* progress eventually ends; when its GET got no response within the
\* timeout, it ends with AgentFetchError "Request timeout", having made no
\* Store write.
BoundedFetch ==
    \A i \in DOMAIN NoRequests :
        (/\ i \in DOMAIN ops
         /\ ops[i].kind \in {"registerAgent", "updateAgent"}
         /\ ops[i].pc # "done")
        ~> (/\ i \in DOMAIN ops
            /\ ops[i].pc = "done"
            /\ (ops[i].fetches = 1 /\ ops[i].status = 0 /\ isValidUrl(ops[i].fetched))
               => /\ ops[i].result =
                       AgentFetchError(ops[i].fetched, <<"Request timeout">>)
                  /\ ops[i].writes = 0)

\* C28 witness: a registerAgent whose GET timed out has ended with
\* AgentFetchError "Request timeout"
BoundedFetchWitness ==
    \E i \in 1..Len(ops) :
        /\ ops[i].kind = "registerAgent"
        /\ ops[i].pc = "done"
        /\ ops[i].status = 0
        /\ ops[i].writes = 0
        /\ ops[i].result = AgentFetchError(determineAgentCardUrl(ops[i].url.s),
                                           <<"Request timeout">>)

\* C29 - Key/name agreement: every document the JsonFileStore map or the
\* SqliteStore table holds is held under its own name.
KeyNameAgreement ==
    /\ \A name \in DOMAIN agents : NameOf(agents[name]) = name
    /\ \A r \in rows : Parse(r.agent_card).ok /\ NameOf(Parse(r.agent_card).value) = r.name

\* C30 - Frame of non-mutating outcomes: on an initialized JsonFileStore,
\* listAgents, getAgent, a createAgent that throws AgentAlreadyExistsError,
\* an updateAgent that returns null and a deleteAgent that returns false
\* leave the map and the file as they were; on SqliteStore the same calls
\* leave every row as it was.
NonMutatingFrame ==
    LET c == last.cur
        reads == {"listAgents", "getAgent"}
        refused == {"AgentAlreadyExistsError", "null", "false"}
    IN  /\ (/\ last.prev.call # NoCall
            /\ c.call.op \in reads \/ c.json.kind \in refused)
           => agents = c.beforeAgents /\ file = c.beforeFile
        /\ (c.call.op \in reads \/ c.sql.kind \in refused)
           => rows = c.beforeRows

\* C30 witness: deleteAgent of a name that is not stored has returned false
\* on both backends, on stores that hold another agent
NonMutatingFrameWitness ==
    /\ last.prev.call # NoCall
    /\ last.cur.call.op = "deleteAgent"
    /\ last.cur.json = ReturnedBool(FALSE)
    /\ last.cur.sql = ReturnedBool(FALSE)
    /\ agents # EmptyMap
    /\ rows # {}

====
